---------------------------- MODULE Spec2Model ----------------------------
(***************************************************************************)
(* XMLQueryBuilder (src/xmlquerybuilder/xml_query_builder.py): a fluent    *)
(* builder over an ElementTree element tree, its serialisation to text     *)
(* and its reconstruction from text.                                       *)
(*                                                                         *)
(* Representation.                                                         *)
(*  - A Python str is a sequence of lexical units.  Every character that   *)
(*    XML treats specially (< > / = " ' & ; and the white space            *)
(*    characters) is a unit of its own; a maximal run of other characters  *)
(*    (a name, a number, a word) is one unit.  "" is << >>.                *)
(*  - Tags and attribute keys are single units (TLA+ strings).             *)
(*  - Elements live in a heap, a sequence of element records addressed by  *)
(*    their index; a reference to an element is its index, None is 0.      *)
(*    An element that nothing reaches any more stays in the heap: that is  *)
(*    what a reference such as filter_root keeps alive.                    *)
(***************************************************************************)
EXTENDS Integers, Sequences, FiniteSets, TLC

\* The call log has at most MaxCalls entries, the constructing call included.
MaxCalls == 4

\* Python's None, for references to elements (find returns it at line 187).
None == 0

---------------------------------------------------------------------------
(* Characters *)

LT == "<"
GT == ">"
SLASH == "/"
EQ == "="
QUOT == "\""
APOS == "'"
AMP == "&"
SEMI == ";"
SP == " "
NL == "\n"
TAB == "\t"
CR == "\r"
\* A character XML 1.0 cannot carry, such as U+0001.
CTRL == "U+0001"

WhiteSpace == {SP, NL, TAB, CR}
Markup == {LT, GT, SLASH, EQ, QUOT, APOS, AMP, SEMI, CTRL} \cup WhiteSpace

\* A unit that can stand as an element or attribute name.
IsName(u) == u \notin Markup

Last(s) == s[Len(s)]

RECURSIVE Flatten(_)
\* The concatenation of a sequence of strs.
Flatten(ss) == IF ss = << >> THEN << >> ELSE Head(ss) \o Flatten(Tail(ss))

---------------------------------------------------------------------------
(* Elements and the heap *)

\* ET.Element(tag, attrib): no text, no tail, no children.
Element(tag, attrib) ==
  [tag |-> tag, attrib |-> attrib, text |-> << >>, tail |-> << >>,
   children |-> << >>]

\* One entry of an attribute dictionary; a dictionary keeps insertion order.
Attr(k, v) == [k |-> k, v |-> v]

\* A SubElement that puts the new element first among the children.
SubElementFirst(h, parent, tag, attrib) ==
  Append([h EXCEPT ![parent].children = <<Len(h) + 1>> \o @],
         Element(tag, attrib))

\* ET.SubElement(parent, tag, attrib) on heap h: the new element gets the
\* next index and goes to the end of the parent's children.
SubElement(h, parent, tag, attrib) ==
  Append([h EXCEPT ![parent].children = Append(@, Len(h) + 1)],
         Element(tag, attrib))

RECURSIVE TreeOf(_, _)
\* The tree an element roots, as a value: the element with each child
\* reference replaced by the child's own tree.
TreeOf(h, id) ==
  [h[id] EXCEPT !.children = [i \in 1..Len(h[id].children) |->
                                TreeOf(h, h[id].children[i])]]

---------------------------------------------------------------------------
(* ET.tostring(root, encoding='unicode'), line 203 *)

\* A character or entity reference, as written in text.
Ref(name) == <<AMP, name, SEMI>>

\* What _escape_attrib writes for one character of an attribute value.
EscapeAttribUnit(u) ==
  CASE u = AMP  -> Ref("amp")
    [] u = LT   -> Ref("lt")
    [] u = GT   -> Ref("gt")
    [] u = QUOT -> Ref("quot")
    [] u = CR   -> Ref("#13")
    [] u = NL   -> Ref("#10")
    [] u = TAB  -> Ref("#09")
    [] OTHER    -> <<u>>

\* What _escape_cdata writes for one character of text.
EscapeCdataUnit(u) ==
  CASE u = AMP  -> Ref("amp")
    [] u = LT   -> Ref("lt")
    [] u = GT   -> Ref("gt")
    [] OTHER    -> <<u>>

EscapeAttrib(s) == Flatten([i \in 1..Len(s) |-> EscapeAttribUnit(s[i])])

EscapeCdata(s) == Flatten([i \in 1..Len(s) |-> EscapeCdataUnit(s[i])])

\* The attributes of a start tag:  key="value", each after one space, in
\* dictionary order.
SerializeAttrib(attrib) ==
  Flatten([i \in 1..Len(attrib) |->
             <<SP, attrib[i].k, EQ, QUOT>> \o EscapeAttrib(attrib[i].v)
               \o <<QUOT>>])

RECURSIVE Serialize(_, _)
\* The text of the element id of heap h and of everything under it: an
\* element with neither text nor children is written <tag ... />, any other
\* as a start tag, the text, the children in order and an end tag; the tail
\* follows.
Serialize(h, id) ==
  LET e == h[id]
      open == <<LT, e.tag>> \o SerializeAttrib(e.attrib)
      kids == Flatten([i \in 1..Len(e.children) |->
                         Serialize(h, e.children[i])])
  IN  (IF e.text # << >> \/ e.children # << >>
         THEN open \o <<GT>> \o EscapeCdata(e.text) \o kids
                \o <<LT, SLASH, e.tag, GT>>
         ELSE open \o <<SP, SLASH, GT>>)
      \o EscapeCdata(e.tail)

---------------------------------------------------------------------------
(* ET.fromstring(text), lines 185 and 231.                                 *)
(* The parser reads one element, with white space allowed around it.  The  *)
(* texts the model feeds it hold no XML declaration, comment, processing   *)
(* instruction, CDATA section or document type, so none of these is read.  *)

\* The unit at position i of text t; "" past the end.
At(t, i) == IF i <= Len(t) THEN t[i] ELSE ""

Fail == [ok |-> FALSE]

\* The entity and character references the parser resolves here.
KnownRef == {"amp", "lt", "gt", "quot", "apos", "#13", "#10", "#09", "#9"}

Deref(name) ==
  CASE name = "amp"  -> AMP
    [] name = "lt"   -> LT
    [] name = "gt"   -> GT
    [] name = "quot" -> QUOT
    [] name = "apos" -> APOS
    [] name = "#13"  -> CR
    [] name = "#10"  -> NL
    [] name \in {"#09", "#9"} -> TAB

\* Whether a well-formed reference starts at position i.
IsRef(t, i) == At(t, i) = AMP /\ At(t, i + 1) \in KnownRef /\ At(t, i + 2) = SEMI

RECURSIVE SkipWs(_, _)
\* The first position from i on that holds no white space.
SkipWs(t, i) == IF At(t, i) \in WhiteSpace THEN SkipWs(t, i + 1) ELSE i

RECURSIVE ParseAttValue(_, _, _, _)
\* An attribute value up to its closing quote q, from position i; acc is
\* the value read so far.  A reference stands for its character; a literal
\* line end, tab or carriage return is normalised to a space; < and a
\* character XML cannot carry are errors.
ParseAttValue(t, i, q, acc) ==
  LET u == At(t, i)
  IN  IF u = q THEN [ok |-> TRUE, pos |-> i + 1, val |-> acc]
      ELSE IF u \in {"", LT, CTRL} THEN Fail
      ELSE IF u = AMP
        THEN IF IsRef(t, i)
               THEN ParseAttValue(t, i + 3, q, Append(acc, Deref(At(t, i + 1))))
               ELSE Fail
      ELSE IF u = CR /\ At(t, i + 1) = NL
        THEN ParseAttValue(t, i + 2, q, Append(acc, SP))
      ELSE IF u \in {CR, NL, TAB}
        THEN ParseAttValue(t, i + 1, q, Append(acc, SP))
      ELSE ParseAttValue(t, i + 1, q, Append(acc, u))

RECURSIVE ParseAttrs(_, _, _)
\* The attributes of a start tag from position i (just after the tag name or
\* after an attribute) to the / or > that ends the tag; acc is the
\* dictionary read so far.  An attribute needs white space before it, a
\* quoted value, and a name the tag does not already carry.
ParseAttrs(t, i, acc) ==
  LET j == SkipWs(t, i)
      u == At(t, j)
      e == SkipWs(t, j + 1)
      q == SkipWs(t, e + 1)
      v == ParseAttValue(t, q + 1, At(t, q), << >>)
  IN  IF u \in {SLASH, GT} THEN [ok |-> TRUE, pos |-> j, attrib |-> acc]
      ELSE IF j = i \/ u = "" \/ ~IsName(u) THEN Fail
      ELSE IF At(t, e) # EQ \/ At(t, q) \notin {QUOT, APOS} THEN Fail
      ELSE IF \E n \in 1..Len(acc) : acc[n].k = u THEN Fail
      ELSE IF ~v.ok THEN Fail
      ELSE ParseAttrs(t, v.pos, Append(acc, Attr(u, v.val)))

\* Character data d reaches the element being read: its text before the
\* first child, the tail of its last child after that (TreeBuilder).
AddData(c, d) ==
  IF c.children = << >>
    THEN [c EXCEPT !.text = Append(@, d)]
    ELSE [c EXCEPT !.children[Len(c.children)].tail = Append(@, d)]

RECURSIVE ParseElement(_, _), ParseContent(_, _, _)
\* The content of an element from position i to the </ of its end tag; c
\* holds the text and the children read so far.
ParseContent(t, i, c) ==
  LET u == At(t, i)
      e == ParseElement(t, i)
  IN  IF u \in {"", CTRL} THEN Fail
      ELSE IF u = LT
        THEN IF At(t, i + 1) = SLASH
               THEN [ok |-> TRUE, pos |-> i, text |-> c.text,
                     children |-> c.children]
               ELSE IF ~e.ok THEN Fail
               ELSE ParseContent(t, e.pos,
                                 [c EXCEPT !.children = Append(@, e.tree)])
      ELSE IF u = AMP
        THEN IF IsRef(t, i)
               THEN ParseContent(t, i + 3, AddData(c, Deref(At(t, i + 1))))
               ELSE Fail
      ELSE IF u = CR
        THEN ParseContent(t, IF At(t, i + 1) = NL THEN i + 2 ELSE i + 1,
                          AddData(c, NL))
      ELSE ParseContent(t, i + 1, AddData(c, u))

\* The element that starts at position i: <tag attributes/> or
\* <tag attributes> content </tag>, the end tag naming the same tag.
ParseElement(t, i) ==
  LET tag == At(t, i + 1)
      a == ParseAttrs(t, i + 2, << >>)
      c == ParseContent(t, a.pos + 1, [text |-> << >>, children |-> << >>])
      k == SkipWs(t, c.pos + 3)
  IN  IF At(t, i) # LT \/ tag = "" \/ ~IsName(tag) THEN Fail
      ELSE IF ~a.ok THEN Fail
      ELSE IF At(t, a.pos) = SLASH
        THEN IF At(t, a.pos + 1) = GT
               THEN [ok |-> TRUE, pos |-> a.pos + 2,
                     tree |-> Element(tag, a.attrib)]
               ELSE Fail
      ELSE IF ~c.ok THEN Fail
      ELSE IF At(t, c.pos + 2) # tag \/ At(t, k) # GT THEN Fail
      ELSE [ok |-> TRUE, pos |-> k + 1,
            tree |-> [Element(tag, a.attrib) EXCEPT !.text = c.text,
                                                    !.children = c.children]]

\* ET.fromstring: the tree of the document's root element, or a ParseError
\* (ok = FALSE) when the text is not one well-formed element.
FromString(text) ==
  LET e == ParseElement(text, SkipWs(text, 1))
  IN  IF ~e.ok THEN Fail
      ELSE IF SkipWs(text, e.pos) # Len(text) + 1 THEN Fail
      ELSE [ok |-> TRUE, tree |-> e.tree]

RECURSIVE AllocTree(_, _), AllocChildren(_, _, _)
\* The heap h with the elements of a parsed tree added in document order;
\* the tree's root gets index Len(h) + 1.
AllocTree(h, tree) ==
  AllocChildren(Append(h, [tree EXCEPT !.children = << >>]), Len(h) + 1,
                tree.children)

AllocChildren(h, id, kids) ==
  IF kids = << >> THEN h
  ELSE AllocChildren(
         [AllocTree(h, Head(kids)) EXCEPT ![id].children = Append(@, Len(h) + 1)],
         id, Tail(kids))

RECURSIVE FindFirst(_, _, _)
\* The first element labelled tag, in document order, among the elements
\* ids and their descendants; None when there is none.
FindFirst(h, ids, tag) ==
  IF ids = << >> THEN None
  ELSE IF h[Head(ids)].tag = tag THEN Head(ids)
  ELSE LET r == FindFirst(h, h[Head(ids)].children, tag)
       IN  IF r # None THEN r ELSE FindFirst(h, Tail(ids), tag)

\* element.find(".//tag"): the first descendant of element labelled tag.
Find(h, element, tag) == FindFirst(h, h[element].children, tag)

---------------------------------------------------------------------------
(* Python values *)

\* s + t for strs: the last run of s and the first run of t become one run.
StrCat(s, t) ==
  IF s # << >> /\ t # << >> /\ IsName(Last(s)) /\ IsName(Head(t))
    THEN SubSeq(s, 1, Len(s) - 1) \o <<Last(s) \o Head(t)>> \o Tail(t)
    ELSE s \o t

\* An argument that is a str or an int.
StrVal(s) == [type |-> "str", s |-> s]
IntVal(n) == [type |-> "int", n |-> n]

\* str(value), line 96.
PyStr(value) == IF value.type = "int" THEN <<ToString(value.n)>> ELSE value.s

\* An optional str argument: << >> is None, <<s>> is the str s.
Absent == << >>
Given(s) == <<s>>

\* The truth value of an optional str: None and "" are false.
Truthy(opt) == opt # Absent /\ opt[1] # << >>

\* `opt if opt else default`, lines 66-69.
OrElse(opt, default) == IF Truthy(opt) THEN opt[1] ELSE default

---------------------------------------------------------------------------
(* The builder *)

VARIABLES
  heap,     \* the elements created so far
  self,     \* the builder's attributes
  calls     \* the calls made so far, each with how it ended

vars == <<heap, self, calls>>

\* A call and how it ended: "ok" (it returned) or the exception it raised.
Call(op, args, result) == [op |-> op, args |-> args, result |-> result]

\* The heap after lines 16-17: fetch is element 1, entity element 2.
NewHeap(root_entity) ==
  SubElement(<<Element("fetch", << >>)>>, 1, "entity",
             <<Attr("name", root_entity)>>)

\* The attributes __init__ sets, lines 15-22; filter_root is not set before
\* the first add_filter.
NewBuilder(root_entity) ==
  [root_entity_name |-> root_entity,
   root |-> 1,
   entity |-> 2,
   select_attributes |-> << >>,
   filters |-> << >>,
   linked_entities |-> << >>,
   orders |-> << >>,
   aggregates |-> << >>,
   filter_root |-> None]

\* The call returns the builder: its attributes are b, the heap is h.
Return(b, h, op, args) ==
  /\ self' = b
  /\ heap' = h
  /\ calls' = Append(calls, Call(op, args, "ok"))

\* The call raises before it changes anything.
Raise(exception, op, args) ==
  /\ UNCHANGED <<self, heap>>
  /\ calls' = Append(calls, Call(op, args, exception))

ALL == <<"ALL">>

\* A sentinel test that accepts 'ALL' anywhere among the arguments.
IsSentinelAmong(attributes) == \E i \in 1..Len(attributes) : attributes[i] = ALL

\* attributes == ('ALL',), line 38.
IsSentinel(attributes) == attributes = <<ALL>>

RECURSIVE SelectLoop(_, _, _, _)
\* Lines 41-43 from the i-th attribute on: each iteration appends one
\* attribute element and extends the recorded list by the whole tuple.
SelectLoop(h, b, attributes, i) ==
  IF i > Len(attributes) THEN [heap |-> h, self |-> b]
  ELSE SelectLoop(
         SubElement(h, b.entity, "attribute", <<Attr("name", attributes[i])>>),
         [b EXCEPT !.select_attributes = @ \o attributes],
         attributes, i + 1)

\* select(*attributes), lines 38-44.  SubElement raises TypeError when the
\* parent is None.
Select(attributes) ==
  LET op == "select"
      args == attributes
      done == SelectLoop(heap, self, attributes, 1)
  IN  IF IsSentinel(attributes)
        THEN IF self.entity = None THEN Raise("TypeError", op, args)
             ELSE Return(self,
                         SubElement(heap, self.entity, "all-attributes", << >>),
                         op, args)
      ELSE IF attributes # << >> /\ self.entity = None
        THEN Raise("TypeError", op, args)
      ELSE Return(done.self, done.heap, op, args)

\* The attribute dictionary of a link-entity element, lines 64-70.
LinkAttrib(name, alias, from_field, to_field, link_type) ==
  <<Attr("name", name),
    Attr("alias", OrElse(alias, name)),
    Attr("from", OrElse(from_field, StrCat(name, <<"id">>))),
    Attr("to", OrElse(to_field, StrCat(name, <<"id">>))),
    Attr("link-type", OrElse(link_type, <<"inner">>))>>

\* link_entity(name, alias, from_field, to_field, link_type), lines 64-72.
LinkEntity(name, alias, from_field, to_field, link_type) ==
  LET op == "link_entity"
  args == <<name, alias, from_field, to_field, link_type>>
  IN  IF self.entity = None THEN Raise("TypeError", op, args)
      ELSE Return([self EXCEPT !.linked_entities = Append(@, Len(heap) + 1)],
                  SubElement(heap, self.entity, "link-entity",
                             LinkAttrib(name, alias, from_field, to_field,
                                        link_type)),
                  op, args)

\* An EnsureFilter without the test of line 90: a filter element per call.
EnsureFilterAlways(h, b) ==
  [heap |-> SubElement(h, b.entity, "filter", <<Attr("type", <<"and">>)>>),
   self |-> [b EXCEPT !.filter_root = Len(h) + 1,
                      !.filters = Append(@, Len(h) + 1)]]

\* Lines 90-92: the filter element is created when self.filters is empty,
\* under the current entity, and remembered in filter_root and filters.
EnsureFilter(h, b) ==
  IF b.filters = << >>
    THEN [heap |-> SubElement(h, b.entity, "filter", <<Attr("type", <<"and">>)>>),
          self |-> [b EXCEPT !.filter_root = Len(h) + 1,
                             !.filters = Append(@, Len(h) + 1)]]
    ELSE [heap |-> h, self |-> b]

\* The attribute dictionary of a condition element, lines 93-97.
ConditionAttrib(attribute, operator, value) ==
  <<Attr("attribute", attribute),
    Attr("operator", operator),
    Attr("value", PyStr(value))>>

\* add_filter(attribute, operator, value), lines 90-98.
AddFilter(attribute, operator, value) ==
  LET op == "add_filter"
      args == <<attribute, operator, value>>
      f == EnsureFilter(heap, self)
  IN  IF self.filters = << >> /\ self.entity = None
        THEN Raise("TypeError", op, args)
      ELSE Return(f.self,
                  SubElement(f.heap, f.self.filter_root, "condition",
                             ConditionAttrib(attribute, operator, value)),
                  op, args)

\* str(descending) in place of the conditional of line 117.
DescendingRepr(descending) == IF descending THEN <<"True">> ELSE <<"False">>

\* "true" if descending else "false", line 117.
Descending(descending) == IF descending THEN <<"true">> ELSE <<"false">>

\* add_order(attribute, descending), lines 115-120.
AddOrder(attribute, descending) ==
  LET op == "add_order"
  args == <<attribute, descending>>
  IN  IF self.entity = None THEN Raise("TypeError", op, args)
      ELSE Return([self EXCEPT !.orders = Append(@, Len(heap) + 1)],
                  SubElement(heap, self.entity, "order",
                             <<Attr("attribute", attribute),
                               Attr("descending", Descending(descending))>>),
                  op, args)

\* add_aggregate(attribute, alias, aggregate_type), lines 138-144.
AddAggregate(attribute, alias, aggregate_type) ==
  LET op == "add_aggregate"
  args == <<attribute, alias, aggregate_type>>
  IN  IF self.entity = None THEN Raise("TypeError", op, args)
      ELSE Return([self EXCEPT !.aggregates = Append(@, Len(heap) + 1)],
                  SubElement(heap, self.entity, "attribute",
                             <<Attr("name", attribute),
                               Attr("alias", alias),
                               Attr("aggregate", aggregate_type)>>),
                  op, args)

RECURSIVE GroupByLoop(_, _, _, _)
\* Lines 160-164 from the i-th attribute on.
GroupByLoop(h, entity, attributes, i) ==
  IF i > Len(attributes) THEN h
  ELSE GroupByLoop(
         SubElement(h, entity, "attribute",
                    <<Attr("name", attributes[i]), Attr("groupby", <<"true">>)>>),
         entity, attributes, i + 1)

\* add_group_by(*attributes), lines 160-165.
AddGroupBy(attributes) ==
  LET op == "add_group_by"
  args == attributes
  IN  IF attributes # << >> /\ self.entity = None
        THEN Raise("TypeError", op, args)
      ELSE Return(self, GroupByLoop(heap, self.entity, attributes, 1), op, args)

\* to_string(pretty=False), line 203.
to_string(b, h) == Serialize(h, b.root)

\* A load without line 187: the entity reference stays where it was.
LoadKeepsEntity(b, h, tree) ==
  [heap |-> AllocTree(h, tree), self |-> [b EXCEPT !.root = Len(h) + 1]]

\* Lines 185-187 on builder b and heap h, for a text that parses: the parsed
\* root replaces root, the first entity under it (or None) replaces entity,
\* and nothing else is assigned.
Load(b, h, tree) ==
  LET h2 == AllocTree(h, tree)
  IN  [heap |-> h2,
       self |-> [b EXCEPT !.root = Len(h) + 1,
                          !.entity = Find(h2, Len(h) + 1, "entity")]]

\* An add_fetch_xml that drops the old document before it parses the text.
AddFetchXmlDropsFirst(fetch_xml_string) ==
  LET op == "add_fetch_xml"
      args == fetch_xml_string
      parsed == FromString(fetch_xml_string)
      loaded == Load(self, heap, parsed.tree)
  IN  IF ~parsed.ok
        THEN /\ self' = [self EXCEPT !.entity = None]
             /\ heap' = heap
             /\ calls' = Append(calls, Call(op, args, "ParseError"))
      ELSE Return(loaded.self, loaded.heap, op, args)

\* add_fetch_xml(fetch_xml_string), lines 185-188.
AddFetchXml(fetch_xml_string) ==
  LET op == "add_fetch_xml"
      args == fetch_xml_string
      parsed == FromString(fetch_xml_string)
      loaded == Load(self, heap, parsed.tree)
  IN  IF ~parsed.ok THEN Raise("ParseError", op, args)
      ELSE Return(loaded.self, loaded.heap, op, args)

\* The value of attribute key in a dictionary, with found = FALSE when the
\* dictionary lacks it (a KeyError at line 232).
Lookup(attrib, key) ==
  LET hits == {n \in 1..Len(attrib) : attrib[n].k = key}
  IN  IF hits = {} THEN [found |-> FALSE]
      ELSE [found |-> TRUE, v |-> attrib[CHOOSE n \in hits : TRUE].v]

\* XMLQueryBuilder.from_fetch_xml(fetch_xml_string), lines 231-235: the
\* text is parsed, the name of its first entity read, a builder constructed
\* with that name and the text loaded into it.  When it returns, the model
\* follows the new builder; when it raises there is no new builder and the
\* model stays with the one it had.
FromFetchXml(fetch_xml_string) ==
  LET op == "from_fetch_xml"
      args == fetch_xml_string
      parsed == FromString(fetch_xml_string)
      probe == AllocTree(<< >>, parsed.tree)
      found == Find(probe, 1, "entity")
      entity_name == Lookup(probe[found].attrib, "name")
      loaded == Load(NewBuilder(entity_name.v), NewHeap(entity_name.v),
                     parsed.tree)
  IN  IF ~parsed.ok THEN Raise("ParseError", op, args)
      ELSE IF found = None THEN Raise("AttributeError", op, args)
      ELSE IF ~entity_name.found THEN Raise("KeyError", op, args)
      ELSE Return(loaded.self, loaded.heap, op, args)

-------------------------------------------------------------------------------------------------------------------------------------------------
(* Arguments *)

account == <<"account">>
contact == <<"contact">>
name == <<"name">>
accountid == <<"accountid">>
eq == <<"eq">>
industry == <<"industry">>
Contoso == <<"Contoso">>
statecode == <<"statecode">>

\* '&lt;"<>' and a line end: every character the serialiser escapes in an
\* attribute value, and a text that reads as a reference.
Special == <<AMP, "lt", SEMI, QUOT, LT, GT, NL>>

\* The call of line 242, and the same call with every option left out.
LinkMain ==
  <<contact, Given(<<"c">>), Given(<<"contactid">>),
    Given(<<"primarycontactid">>), Absent>>
LinkDefault == <<contact, Absent, Absent, Absent, Absent>>

SelectArgs == {<<ALL>>, <<name, accountid>>, <<ALL, name>>}

LinkArgs == {LinkDefault}

FilterArgs ==
  {<<statecode, eq, IntVal(0)>>,
   <<name, eq, StrVal(Special)>>,
   <<name, eq, StrVal(<<CTRL>>)>>}

OrderArgs == {<<name, FALSE>>}

AggregateArgs == {<<<<"revenue">>, <<"total_revenue">>, <<"sum">>>>}

GroupByArgs == {<<industry, name>>}

\* <fetch></fetch>
NoEntityXml == <<LT, "fetch", GT, LT, SLASH, "fetch", GT>>

\* <not-xml
NotXml == <<LT, "not-xml">>

\* A document written by hand, in the layout of lines 253-268: white space
\* between the elements, a filter of its own.
HandXml ==
  <<NL, SP, LT, "fetch", GT, NL, SP,
    LT, "entity", SP, "name", EQ, QUOT, "account", QUOT, GT, NL, SP,
    LT, "attribute", SP, "name", EQ, QUOT, "name", QUOT, SP, SLASH, GT, NL, SP,
    LT, "filter", SP, "type", EQ, QUOT, "and", QUOT, GT, NL, SP,
    LT, "condition", SP, "attribute", EQ, QUOT, "statecode", QUOT, SP,
        "operator", EQ, QUOT, "eq", QUOT, SP, "value", EQ, QUOT, "0", QUOT,
        SP, SLASH, GT, NL, SP,
    LT, SLASH, "filter", GT, NL, SP,
    LT, SLASH, "entity", GT, NL, SP,
    LT, SLASH, "fetch", GT, NL>>

\* <fetch><entity name="account">&#13;</entity></fetch>: a carriage return,
\* written as a character reference, is the text of the entity.
ReturnXml ==
  <<LT, "fetch", GT, LT, "entity", SP, "name", EQ, QUOT, "account", QUOT, GT,
    AMP, "#13", SEMI, LT, SLASH, "entity", GT, LT, SLASH, "fetch", GT>>

\* The texts given to add_fetch_xml: the builder's own serialisation, a
\* document without entity, a text that is not XML and a document with a
\* carriage return in its text.
LoadTexts == {to_string(self, heap), NoEntityXml, NotXml, ReturnXml}

\* The texts given to from_fetch_xml.
FromTexts == {HandXml, NoEntityXml, NotXml}

---------------------------------------------------------------------------
(* The builder under arbitrary calls *)

Init ==
  /\ heap = NewHeap(account)
  /\ self = NewBuilder(account)
  /\ calls = <<Call("__init__", account, "ok")>>

More == Len(calls) < MaxCalls

DoSelect == More /\ \E a \in SelectArgs : Select(a)

DoLinkEntity == More /\ \E a \in LinkArgs : LinkEntity(a[1], a[2], a[3], a[4], a[5])

DoAddFilter == More /\ \E a \in FilterArgs : AddFilter(a[1], a[2], a[3])

DoAddOrder == More /\ \E a \in OrderArgs : AddOrder(a[1], a[2])

DoAddAggregate == More /\ \E a \in AggregateArgs : AddAggregate(a[1], a[2], a[3])

DoAddGroupBy == More /\ \E a \in GroupByArgs : AddGroupBy(a)

DoAddFetchXml == More /\ \E t \in LoadTexts : AddFetchXml(t)

DoFromFetchXml == More /\ \E t \in FromTexts : FromFetchXml(t)

Next ==
  \/ DoSelect
  \/ DoLinkEntity
  \/ DoAddFilter
  \/ DoAddOrder
  \/ DoAddAggregate
  \/ DoAddGroupBy
  \/ DoAddFetchXml
  \/ DoFromFetchXml

Spec == Init /\ [][Next]_vars

---------------------------------------------------------------------------
(* main(), lines 240-247: the seven calls in their order, each with the    *)
(* arguments of main or with a variation of them                           *)

MainSelect ==
  /\ Len(calls) = 1
  /\ \E a \in {<<name, accountid>>, <<ALL>>} : Select(a)

MainLinkEntity ==
  /\ Len(calls) = 2
  /\ \E a \in {LinkMain, LinkDefault} : LinkEntity(a[1], a[2], a[3], a[4], a[5])

MainAddFilter ==
  /\ Len(calls) \in {3, 4}
  /\ \E v \in {StrVal(Contoso), IntVal(0)} :
       AddFilter(IF Len(calls) = 3 THEN name ELSE statecode, eq, v)

MainAddOrder ==
  /\ Len(calls) = 5
  /\ \E d \in BOOLEAN : AddOrder(name, d)

MainAddAggregate ==
  /\ Len(calls) = 6
  /\ AddAggregate(<<"revenue">>, <<"total_revenue">>, <<"sum">>)

MainAddGroupBy ==
  /\ Len(calls) = 7
  /\ \E a \in {<<industry>>, <<industry, name>>} : AddGroupBy(a)

MainNext ==
  \/ MainSelect
  \/ MainLinkEntity
  \/ MainAddFilter
  \/ MainAddOrder
  \/ MainAddAggregate
  \/ MainAddGroupBy

MainSpec == Init /\ [][MainNext]_vars

---------------------------------------------------------------------------
(* Vocabulary of the properties *)

\* The calls that append to the tree.
Appenders ==
  {"select", "link_entity", "add_filter", "add_order", "add_aggregate",
   "add_group_by"}

\* The builder came from the constructor and only appending calls followed.
BuiltByCalls ==
  /\ calls[1].op = "__init__"
  /\ \A i \in 2..Len(calls) : calls[i].op \in Appenders

\* The calls of one operation, in call order.
CallsOf(op) == SelectSeq(calls, LAMBDA c : c.op = op)

\* The children of element id that carry the label tag, in order.
ChildrenTagged(h, id, tag) == SelectSeq(h[id].children, LAMBDA k : h[k].tag = tag)

RECURSIVE Preorder(_, _)
\* The elements of the tree under id, id first, in document order.
Preorder(h, id) ==
  <<id>> \o Flatten([i \in 1..Len(h[id].children) |->
                       Preorder(h, h[id].children[i])])

\* The place of element x in the document under root; 0 when it is not
\* there (None, or an element of an abandoned tree).
PlaceOf(h, root, x) ==
  LET pre == Preorder(h, root)
      at == {i \in 1..Len(pre) : pre[i] = x}
  IN  IF at = {} THEN 0 ELSE CHOOSE i \in at : TRUE

\* How many elements labelled tag the document under root holds.
CountTagged(h, root, tag) ==
  LET pre == Preorder(h, root)
  IN  Cardinality({i \in 1..Len(pre) : h[pre[i]].tag = tag})

\* Whether sequence s starts with sequence p.
IsPrefix(p, s) == Len(p) <= Len(s) /\ SubSeq(s, 1, Len(p)) = p

---------------------------------------------------------------------------
(* C1 *)

\* What the k-th add_filter call must have left as its condition element.
ConditionOf(c) ==
  [tag |-> "condition",
   attrib |-> <<Attr("attribute", c.args[1]), Attr("operator", c.args[2]),
                Attr("value", PyStr(c.args[3]))>>,
   text |-> << >>, tail |-> << >>, children |-> << >>]

\* C1: on a builder that came from the constructor and saw only appending
\* calls, k >= 1 add_filter calls leave the entity exactly one filter child,
\* of type "and", whose children are exactly k condition elements carrying
\* the (attribute, operator, str(value)) of the calls in call order; without
\* an add_filter call the entity has no filter child.
C1_FilterAccumulates ==
  BuiltByCalls =>
    LET fc == CallsOf("add_filter")
        fk == ChildrenTagged(heap, self.entity, "filter")
    IN  IF fc = << >> THEN fk = << >>
        ELSE /\ Len(fk) = 1
             /\ heap[fk[1]].attrib = <<Attr("type", <<"and">>)>>
             /\ TreeOf(heap, fk[1]).children =
                  [i \in 1..Len(fc) |-> ConditionOf(fc[i])]

\* Two add_filter calls with another appending call between them, one of
\* them with an int value.
C1_Witness ==
  /\ BuiltByCalls
  /\ Len(calls) = 4
  /\ calls[2].op = "add_filter" /\ calls[2].args[3] = IntVal(0)
  /\ calls[3].op = "select"
  /\ calls[4].op = "add_filter"

---------------------------------------------------------------------------
(* C2 *)

\* The step is add_fetch_xml applied to the builder's own to_string().
OwnTextLoaded ==
  /\ Len(calls') = Len(calls) + 1
  /\ Last(calls').op = "add_fetch_xml"
  /\ Last(calls').args = to_string(self, heap)

\* The tree and the current entity after the step are those before it:
\* same labels, attributes, text, child order and nesting, and the entity
\* at the same place of the document.
SameDocument ==
  /\ Last(calls').result = "ok"
  /\ TreeOf(heap', self'.root) = TreeOf(heap, self.root)
  /\ PlaceOf(heap', self'.root, self'.entity) = PlaceOf(heap, self.root, self.entity)

\* The builder's serialisation holds no character XML cannot carry and no
\* bare carriage return (one that is element text: a parser reads it as a
\* line end).
Representable ==
  LET text == to_string(self, heap)
  IN  \A i \in 1..Len(text) : text[i] \notin {CTRL, CR}

\* C2, as claimed: add_fetch_xml(B.to_string()) reproduces B's tree and
\* current entity, for a builder B built by any sequence of calls.
C2_RoundTripAnyCalls == [][OwnTextLoaded => SameDocument]_vars

\* C2, amended: the same, for a builder whose serialisation holds only
\* characters XML can carry and no bare carriage return.
C2_RoundTrip == [][OwnTextLoaded /\ Representable => SameDocument]_vars

\* A round trip of a document with an escaped attribute value, nested
\* elements and several children has taken place.
C2_Witness ==
  /\ Len(calls) = 4
  /\ calls[2].op = "add_filter" /\ calls[2].args[3] = StrVal(Special)
  /\ calls[3].op = "link_entity"
  /\ calls[4].op = "add_fetch_xml" /\ calls[4].result = "ok"
  /\ calls[4].args = to_string(self, heap)
  /\ Len(heap[self.entity].children) = 2

---------------------------------------------------------------------------
(* C3 *)

\* The log of lines 240-247.
MainCalls ==
  <<Call("__init__", account, "ok"),
    Call("select", <<name, accountid>>, "ok"),
    Call("link_entity", LinkMain, "ok"),
    Call("add_filter", <<name, eq, StrVal(Contoso)>>, "ok"),
    Call("add_filter", <<statecode, eq, IntVal(0)>>, "ok"),
    Call("add_order", <<name, TRUE>>, "ok"),
    Call("add_aggregate", <<<<"revenue">>, <<"total_revenue">>, <<"sum">>>>, "ok"),
    Call("add_group_by", <<industry>>, "ok")>>

\* The keys of an attribute dictionary, in order.
Keys(attrib) == [i \in 1..Len(attrib) |-> attrib[i].k]

\* What kind of node an element is: its label, and for an attribute element
\* what its attributes make it.
KindOf(e) ==
  IF e.tag # "attribute" THEN e.tag
  ELSE IF Keys(e.attrib) = <<"name">> THEN "selection"
  ELSE IF Keys(e.attrib) = <<"name", "alias", "aggregate">> THEN "aggregate"
  ELSE IF Keys(e.attrib) = <<"name", "groupby">> THEN "group-by"
  ELSE "other"

\* The kinds of the children of the current entity, in order.
EntityKinds ==
  [i \in 1..Len(heap[self.entity].children) |->
     KindOf(heap[heap[self.entity].children[i]])]

\* The filter has two condition children and the order node says
\* descending="true".
MainDetails ==
  /\ \A i \in 1..Len(heap[self.entity].children) :
       LET e == TreeOf(heap, heap[self.entity].children[i])
       IN  /\ e.tag = "filter" =>
                /\ Len(e.children) = 2
                /\ \A k \in 1..2 : e.children[k].tag = "condition"
           /\ e.tag = "order" =>
                Lookup(e.attrib, "descending") = [found |-> TRUE, v |-> <<"true">>]

\* C3, as claimed: after the calls of main the entity's children are two
\* selections, the filter, the link-entity, the order, the aggregate and the
\* group-by, in this order.
C3_MainFilterBeforeLink ==
  calls = MainCalls =>
    /\ EntityKinds = <<"selection", "selection", "filter", "link-entity",
                       "order", "aggregate", "group-by">>
    /\ MainDetails

\* C3, amended: the link-entity, created by the earlier call, comes before
\* the filter.
C3_MainChildren ==
  calls = MainCalls =>
    /\ EntityKinds = <<"selection", "selection", "link-entity", "filter",
                       "order", "aggregate", "group-by">>
    /\ MainDetails

\* The seven calls of main have been made.
C3_Witness == calls = MainCalls /\ Len(heap[self.entity].children) = 7

---------------------------------------------------------------------------
(* C4 *)

\* C4: the root is labelled fetch and has exactly one child labelled entity,
\* and the current entity is that child.
C4_OneEntityUnderFetch ==
  /\ heap[self.root].tag = "fetch"
  /\ self.entity # None
  /\ ChildrenTagged(heap, self.root, "entity") = <<self.entity>>

---------------------------------------------------------------------------
(* C5 *)

\* The step is an add_fetch_xml call.
FetchXmlAdded ==
  /\ Len(calls') = Len(calls) + 1
  /\ Last(calls').op = "add_fetch_xml"

\* C5: add_fetch_xml on a text that is not well-formed XML raises
\* ParseError and leaves the builder as it was: root, entity, filter_root,
\* the recorded lists and every element.
C5_ParseErrorKeepsState ==
  [][FetchXmlAdded /\ ~FromString(Last(calls').args).ok =>
       /\ Last(calls').result = "ParseError"
       /\ self' = self
       /\ heap' = heap]_vars

\* add_fetch_xml has raised ParseError on a builder that two calls had
\* given a filter and a link.
C5_Witness ==
  /\ Len(calls) = 4
  /\ calls[2].op = "add_filter"
  /\ calls[3].op = "link_entity"
  /\ calls[4].op = "add_fetch_xml" /\ calls[4].result = "ParseError"
  /\ self.filter_root # None /\ Len(self.linked_entities) = 1

---------------------------------------------------------------------------
(* C6 *)

\* The text parses and holds no entity element under its root.
WellFormedWithoutEntity(text) ==
  /\ FromString(text).ok
  /\ Find(AllocTree(<< >>, FromString(text).tree), 1, "entity") = None

\* C6: from_fetch_xml on well-formed XML without an entity element fails
\* with StructuralError.
C6_StructuralError ==
  (Last(calls).op = "from_fetch_xml" /\ WellFormedWithoutEntity(Last(calls).args))
    => Last(calls).result = "StructuralError"

---------------------------------------------------------------------------
(* C7 *)

\* The names passed to the select calls other than select("ALL"), in call
\* order.
SelectedNames ==
  Flatten([i \in 1..Len(CallsOf("select")) |->
             IF CallsOf("select")[i].args = <<ALL>> THEN << >>
             ELSE CallsOf("select")[i].args])

\* C7: select_attributes is the names passed to the select calls, each
\* once, in call order; select("ALL") records nothing.
C7_SelectAttributesMirror ==
  BuiltByCalls => self.select_attributes = SelectedNames

---------------------------------------------------------------------------
(* C8 *)

\* The step is a select call.
SelectCalled ==
  /\ Len(calls') = Len(calls) + 1
  /\ Last(calls').op = "select"

\* The elements the step added at the end of the children of id.
AddedUnder(id) ==
  [i \in 1..(Len(heap'[id].children) - Len(heap[id].children)) |->
     heap'[heap'[id].children[Len(heap[id].children) + i]]]

\* The attribute elements select(*names) is to append.
AttributeElements(names) ==
  [i \in 1..Len(names) |-> Element("attribute", <<Attr("name", names[i])>>)]

\* C8: a select call on a builder with a current entity returns; it leaves
\* the children the entity had, in place and as they were, and adds after
\* them one all-attributes element without attributes when the arguments
\* are exactly ("ALL",), and otherwise one attribute element per argument,
\* in argument order, carrying the name alone.  (Without a current entity
\* nothing is added.)
C8_SelectAppends ==
  [][SelectCalled =>
       IF self.entity = None THEN heap' = heap
       ELSE /\ Last(calls').result = "ok"
            /\ self'.entity = self.entity
            /\ IsPrefix(heap[self.entity].children, heap'[self.entity].children)
            /\ \A i \in 1..Len(heap[self.entity].children) :
                 heap'[heap[self.entity].children[i]] =
                   heap[heap[self.entity].children[i]]
            /\ AddedUnder(self.entity) =
                 IF Last(calls').args = <<ALL>>
                   THEN <<Element("all-attributes", << >>)>>
                   ELSE AttributeElements(Last(calls').args)]_vars

\* Three select calls, the sentinel alone, two names, and the sentinel with
\* a name, have left five children.
C8_Witness ==
  /\ Len(calls) = 4
  /\ calls[2].op = "select" /\ calls[2].args = <<ALL>>
  /\ calls[3].op = "select" /\ calls[3].args = <<name, accountid>>
  /\ calls[4].op = "select" /\ calls[4].args = <<ALL, name>>
  /\ Len(heap[self.entity].children) = 5

---------------------------------------------------------------------------
(* C9 *)

\* An add_fetch_xml call has returned.
LoadedBefore ==
  \E i \in 1..Len(calls) :
    calls[i].op = "add_fetch_xml" /\ calls[i].result = "ok"

\* The step is an add_filter call.
FilterAdded ==
  /\ Len(calls') = Len(calls) + 1
  /\ Last(calls').op = "add_filter"

\* C9: after a successful add_fetch_xml that found an entity, an add_filter
\* call adds exactly one condition to the document to_string serialises,
\* under a filter child of the current entity, and the entity has at most
\* one filter child the builder created.
C9_FilterReachesDocument ==
  [][LoadedBefore /\ self.entity # None /\ FilterAdded =>
       /\ Last(calls').result = "ok"
       /\ CountTagged(heap', self'.root, "condition") =
            CountTagged(heap, self.root, "condition") + 1
       /\ \E i \in 1..Len(heap'[self'.entity].children) :
            LET f == heap'[heap'[self'.entity].children[i]]
            IN  /\ f.tag = "filter"
                /\ f.children # << >>
                /\ Last(f.children) = Len(heap')
       /\ Cardinality({i \in 1..Len(heap'[self'.entity].children) :
                         \E k \in 1..Len(self'.filters) :
                           self'.filters[k] = heap'[self'.entity].children[i]})
            <= 1]_vars

---------------------------------------------------------------------------
(* C10 *)

\* The step is a call of an appending operation.
AppenderCalled ==
  /\ Len(calls') = Len(calls) + 1
  /\ Last(calls').op \in Appenders

\* The filter element add_filter appends to in this step.
FilterInUse == IF self.filters = << >> THEN self'.filter_root ELSE self.filter_root

\* C10: an appending call on a builder with a current entity returns; an
\* appending call leaves root and entity where they were, keeps every
\* element there was with its label, attributes and text, keeps each
\* element's children in place, and adds elements only at the end of the
\* children of the entity or of the filter.
C10_PureAppend ==
  [][AppenderCalled =>
       /\ self.entity # None => Last(calls').result = "ok"
       /\ self'.root = self.root
       /\ self'.entity = self.entity
       /\ Len(heap') >= Len(heap)
       /\ \A id \in 1..Len(heap) :
            /\ [heap'[id] EXCEPT !.children = << >>] =
                 [heap[id] EXCEPT !.children = << >>]
            /\ IsPrefix(heap[id].children, heap'[id].children)
            /\ heap'[id].children # heap[id].children =>
                 id \in {self.entity, FilterInUse}
       /\ \A id \in (Len(heap) + 1)..Len(heap') :
            /\ heap'[id].children # << >> => id = FilterInUse
            /\ \E p \in {self.entity, FilterInUse} \ {None} :
                 \E i \in (IF p <= Len(heap) THEN Len(heap[p].children) ELSE 0) + 1
                            ..Len(heap'[p].children) :
                   heap'[p].children[i] = id]_vars

\* Three appending calls of different kinds have returned, the filter among
\* them.
C10_Witness ==
  /\ Len(calls) = 4
  /\ calls[2].op = "select" /\ calls[2].result = "ok"
  /\ calls[3].op = "add_filter" /\ calls[3].result = "ok"
  /\ calls[4].op = "add_group_by" /\ calls[4].result = "ok"
  /\ Len(heap[self.entity].children) = 5

=============================================================================
